---- MODULE Spec2Model ----
(***************************************************************************)
(* Pass GUI (src/app.py): the backend command builder, the asynchronous    *)
(* process executor and the store index with its two derived views.        *)
(*                                                                         *)
(* Python strings are modelled as sequences of one-character strings, so   *)
(* that strip / lower / startswith / slicing / split / join / sorted are   *)
(* computed character by character as the code computes them.              *)
(***************************************************************************)
EXTENDS Integers, Sequences, FiniteSets, TLC

(***************************************************************************)
(* Bounds of the model.                                                    *)
(***************************************************************************)
\* run_command_async calls made during one behaviour of the executor
\* specification
MaxCalls == 2
\* run_command_async calls made during one behaviour of the views
\* specification
MaxClones == 1
\* files in a store directory drawn by the index specification
MaxFiles == 3
\* run_command_async calls made during one behaviour of the reveal
\* specification
MaxReveals == 2
\* run_command_async calls made during one behaviour of the builder
\* specification
MaxBuilds == 1

(***************************************************************************)
(* Characters and Python string primitives.                                *)
(***************************************************************************)
\* the characters used by the model, in code point order
Chars ==
    << " ", ".", "/", ":", "B", "M", "Z",
       "a", "b", "c", "d", "e", "g", "h", "i", "k", "l", "m", "n", "o", "p",
       "r", "s", "t", "u", "w", "x", "z" >>

\* ord(c): only the relative order of code points matters
Ord(c) == CHOOSE i \in DOMAIN Chars : Chars[i] = c

\* str.lower() on one character
LowerChar(c) ==
    CASE c = "B" -> "b"
      [] c = "M" -> "m"
      [] c = "Z" -> "z"
      [] OTHER -> c

\* str.lower()
Lower(s) == [i \in DOMAIN s |-> LowerChar(s[i])]

\* s[n:]
DropFirst(s, n) == IF n >= Len(s) THEN << >> ELSE SubSeq(s, n + 1, Len(s))

\* s[:n] for n >= 0
TakeFirst(s, n) == IF n >= Len(s) THEN s ELSE SubSeq(s, 1, n)

\* s[:-n] for n > 0
DropLast(s, n) == IF n >= Len(s) THEN << >> ELSE SubSeq(s, 1, Len(s) - n)

\* str.startswith
StartsWith(s, p) == Len(p) <= Len(s) /\ SubSeq(s, 1, Len(p)) = p

\* str.endswith
EndsWith(s, p) == Len(p) <= Len(s) /\ SubSeq(s, Len(s) - Len(p) + 1, Len(s)) = p

\* sub in s
Contains(sub, s) ==
    \E i \in 0..(Len(s) - Len(sub)) : SubSeq(s, i + 1, i + Len(sub)) = sub

RECURSIVE LStrip(_)
LStrip(s) == IF s # << >> /\ Head(s) = " " THEN LStrip(Tail(s)) ELSE s

RECURSIVE RStrip(_)
RStrip(s) ==
    IF s # << >> /\ s[Len(s)] = " " THEN RStrip(SubSeq(s, 1, Len(s) - 1)) ELSE s

\* str.strip()
Strip(s) == RStrip(LStrip(s))

\* a < b for Python strings: lexicographic by code point
RECURSIVE StrLess(_, _)
StrLess(a, b) ==
    IF b = << >> THEN FALSE
    ELSE IF a = << >> THEN TRUE
    ELSE IF Head(a) # Head(b) THEN Ord(Head(a)) < Ord(Head(b))
    ELSE StrLess(Tail(a), Tail(b))

\* sep.join(parts)
RECURSIVE Join(_, _)
Join(parts, sep) ==
    IF parts = << >> THEN << >>
    ELSE IF Len(parts) = 1 THEN parts[1]
    ELSE parts[1] \o sep \o Join(Tail(parts), sep)

\* rest.split("/", 1)[0]
RECURSIVE SplitFirst(_)
SplitFirst(s) ==
    IF s = << >> \/ Head(s) = "/" THEN << >>
    ELSE << Head(s) >> \o SplitFirst(Tail(s))

\* insertion of string x into a sorted list of strings, after every element
\* that is not greater than it
RECURSIVE InsertString(_, _)
InsertString(x, sorted) ==
    IF sorted = << >> THEN << x >>
    ELSE IF StrLess(x, Head(sorted)) THEN << x >> \o sorted
    ELSE << Head(sorted) >> \o InsertString(x, Tail(sorted))

\* sorted(list) for a list of strings
RECURSIVE Sorted(_)
Sorted(list) ==
    IF list = << >> THEN << >>
    ELSE InsertString(list[Len(list)], Sorted(SubSeq(list, 1, Len(list) - 1)))

\* the set of elements of a list
Range(list) == {list[i] : i \in DOMAIN list}

\* all orders in which the elements of a finite set can be enumerated
Perms(S) ==
    {p \in [1..Cardinality(S) -> S] : \A x \in S : \E i \in DOMAIN p : p[i] = x}

\* an enumeration of a finite set (the iteration order of a Python set)
SetToSeq(S) == CHOOSE p \in Perms(S) : TRUE

(***************************************************************************)
(* String constants of the program and of the modelled environment.        *)
(***************************************************************************)
\* the suffix "*.gpg" of rglob and of rel.endswith
GpgSuffix == << ".", "g", "p", "g" >>

Slash == << "/" >>

\* DEFAULT_STORE, the expanded "~/.password-store"
DEFAULT_STORE == << "/", "h" >>

\* another directory the user can type or choose as the store
AltStore == << "/", "m" >>

\* the store paths of the modelled file system
StorePaths == {DEFAULT_STORE, AltStore}

\* store-relative paths of files that a store directory may hold
F_bank == << "b", "a", "n", "k", ".", "g", "p", "g" >>
F_gmail == << "e", "m", "a", "i", "l", "/", "g", "m", "a", "i", "l", ".", "g", "p", "g" >>
F_work == << "e", "m", "a", "i", "l", "/", "w", "o", "r", "k", ".", "g", "p", "g" >>
F_Z == << "Z", ".", "g", "p", "g" >>
F_email == << "e", "m", "a", "i", "l", ".", "g", "p", "g" >>
F_deep == << "e", "m", "a", "i", "l", "/", "w", "/", "x", ".", "g", "p", "g" >>
F_hidden == << "x", "/", ".", "g", "p", "g" >>
F_x == << "x", ".", "g", "p", "g" >>
F_note == << "n", "o", "t", "e", ".", "t", "x", "t" >>
F_a == << "a", ".", "g", "p", "g" >>

Files == {F_bank, F_gmail, F_work, F_Z, F_email, F_deep, F_hidden, F_x, F_note}

\* the three files of the documented scenario
ScenarioFiles == {F_bank, F_gmail, F_work}

\* texts the user types into the search field
Queries ==
    { << >>, << " " >>, << "g", "m" >>, << " ", "M", "a", "i", "l" >>,
      << "k", " " >>, << "z" >> }

(***************************************************************************)
(* Store indexer: _refresh_lists, lines 503-514.                           *)
(***************************************************************************)
\* the directories implied by a set of file paths: every proper prefix that
\* ends right before a "/"
DirsOf(files) ==
    UNION {{SubSeq(f, 1, i - 1) : i \in {j \in DOMAIN f : f[j] = "/"}} : f \in files}

\* store.rglob("*.gpg"): every path under the store, file or directory,
\* whose last component ends with ".gpg"
RGlob(files) == {p \in files \cup DirsOf(files) : EndsWith(p, GpgSuffix)}

\* Entry(name, path) of one matched path p (lines 509-511)
EntryOf(store, p) ==
    [name |-> IF EndsWith(p, GpgSuffix) THEN DropLast(p, 4) ELSE p,
     path |-> store \o Slash \o p]

\* a < b for the sort key e.name.lower()
KeyLess(a, b) == StrLess(Lower(a.name), Lower(b.name))

RECURSIVE InsertEntry(_, _)
InsertEntry(x, sorted) ==
    IF sorted = << >> THEN << x >>
    ELSE IF KeyLess(x, Head(sorted)) THEN << x >> \o sorted
    ELSE << Head(sorted) >> \o InsertEntry(x, Tail(sorted))

\* items.sort(key=lambda e: e.name.lower()), a stable sort (line 512)
RECURSIVE SortEntries(_)
SortEntries(items) ==
    IF items = << >> THEN << >>
    ELSE InsertEntry(items[Len(items)],
                     SortEntries(SubSeq(items, 1, Len(items) - 1)))

\* the scan of lines 505-512; dir is the store's directory record and order
\* the order in which rglob yields the matched paths
ScanStore(store, dir, order) ==
    IF dir.is_dir
    THEN SortEntries([i \in DOMAIN order |-> EntryOf(store, order[i])])
    ELSE << >>

\* the orders in which rglob can yield the matches of a store directory
ScanOrders(dir) == IF dir.is_dir THEN Perms(RGlob(dir.files)) ELSE {<< >>}

(***************************************************************************)
(* Search filter: _on_search_changed, lines 411-415.                       *)
(***************************************************************************)
FilterList(list, query) ==
    SelectSeq(list, LAMBDA e : Contains(query, Lower(e.name)))

\* FilterEntries with the name compared as it is written
FilterEntries_case_sensitive(entries_, text) ==
    LET query == Lower(Strip(text))
    IN  IF query = << >> THEN entries_
        ELSE SelectSeq(entries_, LAMBDA e : Contains(query, e.name))

FilterEntries(entries_, text) ==
    LET query == Lower(Strip(text))
    IN  IF query = << >> THEN entries_ ELSE FilterList(entries_, query)

\* _reload_all_model, lines 520-523
ReloadAllModel(filtered) == [i \in DOMAIN filtered |-> filtered[i].name]

(***************************************************************************)
(* Folder listing: _load_folder_items, lines 548-565.                      *)
(***************************************************************************)
\* the loop of lines 553-561 over the entries, accumulating seen_dirs and files
RECURSIVE FolderScan(_, _)
FolderScan(entries_, prefix) ==
    IF entries_ = << >> THEN [seen_dirs |-> {}, files |-> << >>]
    ELSE LET acc == FolderScan(SubSeq(entries_, 1, Len(entries_) - 1), prefix)
             name == entries_[Len(entries_)].name
             rest == IF prefix # << >> THEN DropFirst(name, Len(prefix) + 1)
                     ELSE name
         IN  IF prefix # << >> /\ ~StartsWith(name, prefix \o Slash)
             THEN acc
             ELSE IF Contains(Slash, rest)
             THEN [acc EXCEPT !.seen_dirs = @ \cup {SplitFirst(rest)}]
             ELSE [acc EXCEPT !.files = Append(@, rest)]

\* the loop with startswith(prefix) in place of startswith(prefix + "/")
RECURSIVE FolderScanNoSlash(_, _)
FolderScanNoSlash(entries_, prefix) ==
    IF entries_ = << >> THEN [seen_dirs |-> {}, files |-> << >>]
    ELSE LET acc == FolderScanNoSlash(SubSeq(entries_, 1, Len(entries_) - 1), prefix)
             name == entries_[Len(entries_)].name
             rest == IF prefix # << >> THEN DropFirst(name, Len(prefix) + 1)
                     ELSE name
         IN  IF prefix # << >> /\ ~StartsWith(name, prefix)
             THEN acc
             ELSE IF Contains(Slash, rest)
             THEN [acc EXCEPT !.seen_dirs = @ \cup {SplitFirst(rest)}]
             ELSE [acc EXCEPT !.files = Append(@, rest)]

\* load_folder_items over that loop
load_folder_items_no_slash(entries_, folder_path_) ==
    LET scan == FolderScanNoSlash(entries_, Join(folder_path_, Slash))
        dirs == Sorted(SetToSeq(scan.seen_dirs))
        files == Sorted(scan.files)
    IN  [i \in DOMAIN dirs |-> [name |-> dirs[i], is_dir |-> TRUE]]
        \o [i \in DOMAIN files |-> [name |-> files[i], is_dir |-> FALSE]]

\* the items put into folder_store (lines 562-565)
load_folder_items(entries_, folder_path_) ==
    LET scan == FolderScan(entries_, Join(folder_path_, Slash))
        dirs == Sorted(SetToSeq(scan.seen_dirs))
        files == Sorted(scan.files)
    IN  [i \in DOMAIN dirs |-> [name |-> dirs[i], is_dir |-> TRUE]]
        \o [i \in DOMAIN files |-> [name |-> files[i], is_dir |-> FALSE]]

(***************************************************************************)
(* Command builder: PassRunner, lines 73-136.                              *)
(***************************************************************************)
S_pass == << "p", "a", "s", "s" >>
S_show == << "s", "h", "o", "w" >>
S_git == << "g", "i", "t" >>
S_clone == << "c", "l", "o", "n", "e" >>
S_run == << "r", "u", "n" >>
S_image == << "g", "h", "c", "r", ".", "i", "o", "/", "n", "o", "o", "b", "p", "i", "n", "g", "/", "p", "a", "s", "s", ":", "l", "a", "t", "e", "s", "t" >>

\* the repository URL typed into git_entry
RepoUrl == << "u", ":", "r" >>

\* shlex.split on a string without backslashes: rest is the unread input,
\* state one of "space" (between tokens), "word", "'" or "dq" (inside quotes),
\* tok the token being read, out the tokens read so far
RECURSIVE ShlexRun(_, _, _, _)
ShlexRun(rest, state, tok, out) ==
    IF rest = << >>
    THEN CASE state = "space" -> [ok |-> TRUE, tokens |-> out]
           [] state = "word" -> [ok |-> TRUE, tokens |-> Append(out, tok)]
           [] OTHER -> [ok |-> FALSE, tokens |-> << >>]
    ELSE LET c == Head(rest)
             more == Tail(rest)
         IN  CASE state = "space" ->
                    IF c = " " THEN ShlexRun(more, "space", << >>, out)
                    ELSE IF c = "'" THEN ShlexRun(more, "'", << >>, out)
                    ELSE IF c = "dq" THEN ShlexRun(more, "dq", << >>, out)
                    ELSE ShlexRun(more, "word", << c >>, out)
               [] state = "word" ->
                    IF c = " " THEN ShlexRun(more, "space", << >>, Append(out, tok))
                    ELSE IF c = "'" THEN ShlexRun(more, "'", tok, out)
                    ELSE IF c = "dq" THEN ShlexRun(more, "dq", tok, out)
                    ELSE ShlexRun(more, "word", Append(tok, c), out)
               [] OTHER ->
                    IF c = state THEN ShlexRun(more, "word", tok, out)
                    ELSE ShlexRun(more, state, Append(tok, c), out)

\* shlex.split(s); ok is FALSE where it raises ValueError (no closing quote)
ShlexSplit(s) == ShlexRun(s, "space", << >>, << >>)

\* _host_cmd, lines 87-88
host_cmd(args) == << S_pass >> \o args

\* custom_cmd with only the first token of the custom command kept
custom_cmd_first_token(cfg_, args) ==
    TakeFirst(ShlexSplit(cfg_.custom_cmd).tokens, 1) \o args

\* _custom_cmd, lines 90-94
custom_cmd(cfg_, args) == ShlexSplit(cfg_.custom_cmd).tokens \o args

\* the host facts _container_cmd reads: f"{uid}:{gid}", the home directory's
\* .gnupg path and whether that directory exists
HostUser == << "1", ":", "1" >>
HostGnupg == << "/", "h", "/", ".", "g", "n", "u", "p", "g" >>
HostHasGnupg == TRUE

\* _container_cmd, lines 96-125
container_cmd(cfg_, engine, args) ==
    LET relabel == IF engine = "podman" THEN << ":", "Z" >> ELSE << >>
        mounts == << << "-", "v" >>, cfg_.store_path \o << ":", "/", "h", "o", "m", "e", "/", "a", "p", "p", "/", ".", "p", "a", "s", "s", "w", "o", "r", "d", "-", "s", "t", "o", "r", "e" >> \o relabel >>
                  \o (IF HostHasGnupg
                      THEN << << "-", "v" >>, HostGnupg \o << ":", "/", "h", "o", "m", "e", "/", "a", "p", "p", "/", ".", "g", "n", "u", "p", "g" >> \o relabel >>
                      ELSE << >>)
        base == << IF engine = "podman" THEN << "p", "o", "d", "m", "a", "n" >> ELSE << "d", "o", "c", "k", "e", "r" >>,
                   S_run, << "-", "-", "r", "m" >>, << "-", "-", "u", "s", "e", "r" >>, HostUser, << "-", "e" >>, << "H", "O", "M", "E", "=", "/", "h", "o", "m", "e", "/", "a", "p", "p" >>,
                   << "-", "w" >>, << "/", "h", "o", "m", "e", "/", "a", "p", "p" >> >>
                \o mounts \o << S_image, S_pass >>
    IN  base \o args

\* PassRunner.build, lines 127-136; ok is FALSE where the call raises
build(cfg_, args) ==
    IF cfg_.backend = "host" THEN [ok |-> TRUE, argv |-> host_cmd(args)]
    ELSE IF cfg_.backend \in {"podman", "docker"}
    THEN [ok |-> TRUE, argv |-> container_cmd(cfg_, cfg_.backend, args)]
    ELSE [ok |-> ShlexSplit(cfg_.custom_cmd).ok, argv |-> custom_cmd(cfg_, args)]

(***************************************************************************)
(* State.                                                                  *)
(***************************************************************************)
VARIABLES
    fs,               \* the file system: store path -> [is_dir, files]
    cfg,              \* self.cfg: [backend, custom_cmd, store_path]
    backend_dd,       \* the backend selected in the settings drop-down
    custom_entry,     \* text of the custom command field
    store_entry,      \* text of the store folder field
    git_entry,        \* text of the Git URL field
    search_entry,     \* text of the search field
    entries,          \* self.entries, the Index
    filtered_entries, \* self.filtered_entries
    all_liststore,    \* the names shown on the All page
    folder_path,      \* self.folder_path
    folder_store,     \* the items shown on the Folders page
    detail,           \* viewer -> [title, body] of its detail pane
    cancelled,        \* whether self.cancellable has been cancelled
    calls,            \* the run_command_async calls made so far
    idle              \* the main loop's queue of idle sources

vars ==
    << fs, cfg, backend_dd, custom_entry, store_entry, git_entry, search_entry,
       entries, filtered_entries, all_liststore, folder_path, folder_store,
       detail, cancelled, calls, idle >>

settingsVars == << cfg, backend_dd, custom_entry, store_entry, git_entry >>
indexVars == << entries, filtered_entries, all_liststore, folder_path, folder_store >>
procVars == << cancelled, calls, idle >>

NoDir == [is_dir |-> FALSE, files |-> {}]
Dir(files) == [is_dir |-> TRUE, files |-> files]

(***************************************************************************)
(* _refresh_lists, lines 503-518: the Index is rebuilt from the store at   *)
(* cfg_.store_path, the flat list is reset to the whole Index and the      *)
(* folder view to the root.                                                *)
(***************************************************************************)
\* refresh_lists without the closing _load_folder_items
refresh_lists_stale_folder(cfg_) ==
    \E order \in ScanOrders(fs[cfg_.store_path]) :
        /\ entries' = ScanStore(cfg_.store_path, fs[cfg_.store_path], order)
        /\ filtered_entries' = entries'
        /\ all_liststore' = ReloadAllModel(filtered_entries')
        /\ folder_path' = << >>
        /\ folder_store' = folder_store

refresh_lists(cfg_) ==
    \E order \in ScanOrders(fs[cfg_.store_path]) :
        /\ entries' = ScanStore(cfg_.store_path, fs[cfg_.store_path], order)
        /\ filtered_entries' = entries'
        /\ all_liststore' = ReloadAllModel(filtered_entries')
        /\ folder_path' = << >>
        /\ folder_store' = load_folder_items(entries', folder_path')

(***************************************************************************)
(* The state after MainWindow.__init__ (lines 178-235) on a configuration  *)
(* with the defaults of load_config.                                       *)
(***************************************************************************)
\* the configuration load_config returns when no config file exists and pass
\* is installed (lines 43-47)
DefaultConfig == [backend |-> "host", custom_cmd |-> S_pass, store_path |-> DEFAULT_STORE]

\* the options of the backend drop-down (line 326)
Backends == {"host", "podman", "docker", "custom"}

\* the window built on a file system of stores and a configuration of configs
InitWith(stores, configs) ==
    /\ fs \in stores
    /\ cfg \in configs
    /\ backend_dd = IF cfg.backend \in Backends THEN cfg.backend ELSE "host"
    /\ custom_entry = << >>
    /\ store_entry = cfg.store_path
    /\ git_entry = << >>
    /\ search_entry = << >>
    /\ \E order \in ScanOrders(fs[cfg.store_path]) :
        LET items == ScanStore(cfg.store_path, fs[cfg.store_path], order)
        IN  /\ entries = items
            /\ filtered_entries = items
            /\ all_liststore = ReloadAllModel(items)
            /\ folder_store = load_folder_items(items, << >>)
    /\ folder_path = << >>
    /\ detail = [v \in {1, 2} |-> [title |-> << >>, body |-> << >>]]
    /\ cancelled = FALSE
    /\ calls = << >>
    /\ idle = << >>

InitWindow(stores) == InitWith(stores, {DefaultConfig})

\* the store directories of the application specification
MainStores ==
    {[p \in StorePaths |-> IF p = DEFAULT_STORE THEN d ELSE NoDir] :
        d \in {NoDir, Dir({F_bank, F_gmail, F_note})}}

\* what a successful git clone leaves in its destination
RepoFiles == {F_work, F_Z}

\* the store directories of the index specification: every set of at most
\* MaxFiles files
IndexStores ==
    {[p \in StorePaths |-> IF p = DEFAULT_STORE THEN Dir(f) ELSE NoDir] :
        f \in {g \in SUBSET Files : Cardinality(g) <= MaxFiles}}

\* the store directories of the executor specification
ExecStores ==
    {[p \in StorePaths |-> IF p = DEFAULT_STORE THEN d ELSE NoDir] :
        d \in {NoDir, Dir({F_gmail, F_note})}}

\* custom commands a config file may hold
C_xy_pass == << "/", "x", "/", "y", " ", "p", "a", "s", "s" >>
C_quoted == << "'", "x", " ", "y", "'" >>
C_unclosed == << "'", "p" >>
CustomCmds == {<< >>, << " " >>, S_pass, C_xy_pass, C_quoted, C_unclosed}

\* texts typed into the custom command field
CustomTexts == {<< >>, << " ", "/", "x", "/", "y", " ", "p", "a", "s", "s" >>, C_unclosed}

\* the configurations load_config can return: a config file may hold any
\* backend and any custom command
ConfigFiles ==
    {[backend |-> b, custom_cmd |-> c, store_path |-> DEFAULT_STORE] :
        b \in Backends, c \in CustomCmds}

\* the store directory of the builder specification
BuildStores ==
    {[p \in StorePaths |-> IF p = DEFAULT_STORE THEN Dir({F_a, F_note}) ELSE NoDir]}

Init == InitWindow(MainStores)

InitBuild == InitWith(BuildStores, ConfigFiles)

InitExec == InitWindow(ExecStores)

InitIndex == InitWindow(IndexStores)

(***************************************************************************)
(* Events of the All and Folders pages.                                    *)
(***************************************************************************)
\* _on_search_changed, lines 410-416: the search field's text became text
on_search_changed(text) ==
    /\ text # search_entry
    /\ search_entry' = text
    /\ filtered_entries' = FilterEntries(entries, text)
    /\ all_liststore' = ReloadAllModel(filtered_entries')
    /\ UNCHANGED << fs, settingsVars, entries, folder_path, folder_store,
                    detail, procVars >>

\* _nav_to, lines 543-546, from the breadcrumb button that keeps the first
\* upto parts of the path (0: the root button)
nav_to(upto) ==
    /\ upto \in 0..Len(folder_path)
    /\ folder_path' = TakeFirst(folder_path, upto)
    /\ folder_store' = load_folder_items(entries, folder_path')
    /\ UNCHANGED << fs, settingsVars, search_entry, entries, filtered_entries,
                    all_liststore, detail, procVars >>

\* _on_folder_activate, lines 424-431: the selected item is a directory
on_folder_activate_dir(pos) ==
    /\ pos \in DOMAIN folder_store
    /\ folder_store[pos].is_dir
    /\ folder_path' = Append(folder_path, folder_store[pos].name)
    /\ folder_store' = load_folder_items(entries, folder_path')
    /\ UNCHANGED << fs, settingsVars, search_entry, entries, filtered_entries,
                    all_liststore, detail, procVars >>

(***************************************************************************)
(* Asynchronous process executor: run_command_async, lines 141-161.        *)
(*                                                                         *)
(* A call record holds the closure of on_done (kind, arg, viewer), the     *)
(* child process (child, status and the bytes it wrote), the state of the  *)
(* communicate_async operation (comm) and, as history, how often           *)
(* on_done has run (ndone) and with which result.                          *)
(***************************************************************************)
\* a byte that is not valid UTF-8, and what errors="replace" puts for it
InvalidByte == "xFF"
ReplacementChar == "uFFFD"

\* bytes.decode("utf-8", errors="replace"), lines 153-154
Decode(bytes) ==
    [i \in DOMAIN bytes |-> IF bytes[i] = InvalidByte THEN ReplacementChar ELSE bytes[i]]

\* the GLib.Error raised by Gio.Subprocess.new when the program cannot be run
SpawnError == [domain |-> << "e", "x", "e", "c" >>, message |-> << "n", "o", " ", "f", "i", "l", "e" >>, code |-> << "8" >>]

\* the GLib.Error of communicate_finish on a cancelled operation
CancelledError == [domain |-> << "i", "o" >>, message |-> << "c", "a", "n", "c", "e", "l", "l", "e", "d" >>, code |-> << "1", "9" >>]

\* str(e) of a GLib.Error: "domain: message (code)"
StrOfError(e) == e.domain \o << ":", " " >> \o e.message \o << " ", "(" >> \o e.code \o << ")" >>

\* what the child of a successful "pass show name" writes to its stdout
Secret(name) == << "p", "w", ":" >> \o name

\* what a failing child writes to its stderr
ErrBytes == << "e", "r", "r", InvalidByte >>

NoResult == << >>

\* spawn_failed with the diagnostic text left out
spawn_failed_no_diagnostic(id, closure, e) ==
    [call |-> closure @@ [child |-> "none", status |-> 0, out_bytes |-> << >>,
                          err_bytes |-> << >>, comm |-> "none", ndone |-> 0,
                          result |-> NoResult],
     sources |-> << [call |-> id, result |-> << -1, << >>, << >> >>] >>]

\* spawn_failed with on_done called directly from the except branch
spawn_failed_sync(id, closure, e) ==
    [call |-> closure @@ [child |-> "none", status |-> 0, out_bytes |-> << >>,
                          err_bytes |-> << >>, comm |-> "none", ndone |-> 1,
                          result |-> << -1, << >>, StrOfError(e) >>],
     sources |-> << >>]

\* the call record and idle source when Gio.Subprocess.new raises e
\* (lines 146-148): on_done(-1, "", str(e)) is left to an idle source
spawn_failed(id, closure, e) ==
    [call |-> closure @@ [child |-> "none", status |-> 0, out_bytes |-> << >>,
                          err_bytes |-> << >>, comm |-> "none", ndone |-> 0,
                          result |-> NoResult],
     sources |-> << [call |-> id, result |-> << -1, << >>, StrOfError(e) >>] >>]

\* the call record when the child was spawned (lines 145, 161)
spawned(closure) ==
    closure @@ [child |-> "running", status |-> 0, out_bytes |-> << >>,
                err_bytes |-> << >>, comm |-> "pending", ndone |-> 0,
                result |-> NoResult]

\* run_command_async(argv, cancellable=self.cancellable, on_done=closure)
run_command_async(closure) ==
    /\ \E launched \in BOOLEAN :
        LET id == Len(calls) + 1
            failed == spawn_failed(id, closure, SpawnError)
        IN  IF launched
            THEN /\ calls' = Append(calls, spawned(closure))
                 /\ idle' = idle
            ELSE /\ calls' = Append(calls, failed.call)
                 /\ idle' = idle \o failed.sources
    /\ UNCHANGED cancelled

\* the result _after_communicate computes (lines 151-157) for call record c
communicate_result(c, is_cancelled) ==
    IF is_cancelled
    THEN << -1, << >>, StrOfError(CancelledError) >>
    ELSE << IF c.status = 0 THEN 0 ELSE c.status,
            IF c.out_bytes # << >> THEN Decode(c.out_bytes) ELSE << >>,
            IF c.err_bytes # << >> THEN Decode(c.err_bytes) ELSE << >> >>

\* after_sources with the callback forgotten in the except branch
after_sources_dropped(id, c, is_cancelled) ==
    IF is_cancelled THEN << >>
    ELSE << [call |-> id, result |-> communicate_result(c, FALSE)] >>

\* the idle sources _after_communicate adds (lines 158-159)
after_sources(id, c, is_cancelled) ==
    << [call |-> id, result |-> communicate_result(c, is_cancelled)] >>

\* _after_communicate, lines 150-159: the communicate operation of call id
\* completes, because the child exited and its pipes closed or because the
\* cancellable was cancelled
after_communicate(id) ==
    /\ id \in DOMAIN calls
    /\ calls[id].comm = "pending"
    /\ calls[id].child = "exited" \/ cancelled
    /\ calls' = [calls EXCEPT ![id].comm = "done"]
    /\ idle' = idle \o after_sources(id, calls[id], cancelled)
    /\ UNCHANGED << fs, settingsVars, search_entry, indexVars, detail, cancelled >>

\* the child of call id exits; ok tells whether it succeeded
child_exit(id, ok) ==
    /\ id \in DOMAIN calls
    /\ calls[id].child = "running"
    /\ IF calls[id].kind = "show"
       THEN /\ calls' = [calls EXCEPT ![id] = [@ EXCEPT
                    !.child = "exited",
                    !.status = IF ok THEN 0 ELSE 1,
                    !.out_bytes = IF ok THEN Secret(calls[id].arg) ELSE << >>,
                    !.err_bytes = IF ok THEN << >> ELSE ErrBytes]]
            /\ fs' = fs
       ELSE \* git clone succeeds only into an empty directory
            /\ ok => fs[calls[id].arg] = Dir({})
            /\ calls' = [calls EXCEPT ![id] = [@ EXCEPT
                    !.child = "exited",
                    !.status = IF ok THEN 0 ELSE 128,
                    !.err_bytes = IF ok THEN << >> ELSE ErrBytes]]
            /\ fs' = IF ok THEN [fs EXCEPT ![calls[id].arg] = Dir(RepoFiles)] ELSE fs
    /\ UNCHANGED << settingsVars, search_entry, indexVars, detail, cancelled, idle >>

\* the caller cancels the cancellable that was handed to run_command_async
cancel ==
    /\ ~cancelled
    /\ cancelled' = TRUE
    /\ UNCHANGED << fs, settingsVars, search_entry, indexVars, detail, calls, idle >>

\* the idle queue after the head source's callback returned None
idle_after_dispatch(queue) == Tail(queue)

\* done of _show_entry, lines 573-588
show_done(c, rc, out) ==
    /\ IF rc # 0
       THEN detail' = detail
       ELSE detail' = [detail EXCEPT ![c.viewer] = [title |-> c.arg, body |-> out]]
    /\ UNCHANGED indexVars

\* done of _clone_repo, lines 621-626
clone_done(rc) ==
    /\ IF rc # 0 THEN UNCHANGED indexVars ELSE refresh_lists(cfg)
    /\ UNCHANGED detail

\* the main loop dispatches the first idle source: on_done(rc, out, err)
idle_dispatch ==
    /\ idle # << >>
    /\ LET src == Head(idle)
           c == calls[src.call]
       IN  /\ IF c.kind = "show"
              THEN show_done(c, src.result[1], src.result[2])
              ELSE clone_done(src.result[1])
           /\ calls' = [calls EXCEPT ![src.call] = [@ EXCEPT
                    !.ndone = @ + 1, !.result = src.result]]
    /\ idle' = idle_after_dispatch(idle)
    /\ UNCHANGED << fs, settingsVars, search_entry, cancelled >>

(***************************************************************************)
(* Handlers that start a child process.                                    *)
(***************************************************************************)
\* _show_entry, lines 567-590
show_entry(name, viewer) ==
    LET b == build(cfg, << S_show, name >>)
    IN  /\ b.ok
        /\ run_command_async([kind |-> "show", arg |-> name, viewer |-> viewer,
                              argv |-> b.argv])
        /\ UNCHANGED << fs, settingsVars, search_entry, indexVars, detail >>

\* _on_all_activate, lines 418-422
on_all_activate(pos) ==
    /\ pos \in DOMAIN all_liststore
    /\ show_entry(all_liststore[pos], 1)

\* full_name without the folder path
full_name_no_path(folder_path_, name) == name

\* "/".join(self.folder_path + [item.name]), line 433
full_name(folder_path_, name) == Join(Append(folder_path_, name), Slash)

\* _on_folder_activate, lines 424-434: the selected item is a file
on_folder_activate_file(pos) ==
    /\ pos \in DOMAIN folder_store
    /\ ~folder_store[pos].is_dir
    /\ show_entry(full_name(folder_path, folder_store[pos].name), 2)

\* _on_folder_activate, lines 424-434
on_folder_activate(pos) ==
    on_folder_activate_dir(pos) \/ on_folder_activate_file(pos)

\* _clone_repo, lines 611-628
clone_repo ==
    LET repo == Strip(git_entry)
        dest == IF Strip(store_entry) # << >> THEN Strip(store_entry) ELSE DEFAULT_STORE
    IN  /\ repo # << >>
        /\ dest \in StorePaths
        /\ fs' = [fs EXCEPT ![dest] = IF @.is_dir THEN @ ELSE Dir({})]
        /\ run_command_async([kind |-> "clone", arg |-> dest, viewer |-> 0,
                              argv |-> << S_git, S_clone, repo, dest >>])
        /\ UNCHANGED << settingsVars, search_entry, indexVars, detail >>

(***************************************************************************)
(* Settings page.                                                          *)
(***************************************************************************)
\* the user edits the store folder field
edit_store_entry(text) ==
    /\ text # store_entry
    /\ store_entry' = text
    /\ UNCHANGED << fs, cfg, backend_dd, custom_entry, git_entry, search_entry,
                    indexVars, detail, procVars >>

\* the user selects a backend in the drop-down
select_backend(b) ==
    /\ b # backend_dd
    /\ backend_dd' = b
    /\ UNCHANGED << fs, cfg, custom_entry, store_entry, git_entry, search_entry,
                    indexVars, detail, procVars >>

\* the user edits the custom command field
edit_custom_entry(text) ==
    /\ text # custom_entry
    /\ custom_entry' = text
    /\ UNCHANGED << fs, cfg, backend_dd, store_entry, git_entry, search_entry,
                    indexVars, detail, procVars >>

\* the user edits the Git URL field
edit_git_entry(text) ==
    /\ text # git_entry
    /\ git_entry' = text
    /\ UNCHANGED << fs, cfg, backend_dd, custom_entry, store_entry, search_entry,
                    indexVars, detail, procVars >>

\* _on_folder_chosen, lines 598-609, with the folder the dialog returned
on_folder_chosen(path) ==
    /\ fs[path].is_dir
    /\ store_entry' = path
    /\ cfg' = [cfg EXCEPT !.store_path = path]
    /\ refresh_lists(cfg')
    /\ UNCHANGED << fs, backend_dd, custom_entry, git_entry, search_entry,
                    detail, procVars >>

\* _save_settings, lines 630-640
save_settings ==
    /\ cfg' = [backend |-> backend_dd,
               custom_cmd |-> IF Strip(custom_entry) # << >> THEN Strip(custom_entry)
                              ELSE S_pass,
               store_path |-> IF Strip(store_entry) # << >> THEN Strip(store_entry)
                              ELSE DEFAULT_STORE]
    /\ cfg'.store_path \in StorePaths
    /\ refresh_lists(cfg')
    /\ UNCHANGED << fs, backend_dd, custom_entry, store_entry, git_entry,
                    search_entry, detail, procVars >>

(***************************************************************************)
(* Specifications.                                                         *)
(***************************************************************************)
\* texts typed into the search field in the application specification
MainQueries == { << >>, << "g", "m" >> }

\* texts typed into the store folder field
StoreTexts == { << >>, AltStore }

Next ==
    \/ \E text \in MainQueries : on_search_changed(text)
    \/ \E upto \in 0..Len(folder_path) : nav_to(upto)
    \/ Len(calls) < MaxCalls /\ \E pos \in DOMAIN folder_store : on_folder_activate_file(pos)
    \/ \E pos \in DOMAIN folder_store : on_folder_activate_dir(pos)
    \/ Len(calls) < MaxCalls /\ \E pos \in DOMAIN all_liststore : on_all_activate(pos)
    \/ Len(calls) < MaxCalls /\ clone_repo
    \/ \E text \in StoreTexts : edit_store_entry(text)
    \/ \E text \in {<< >>, RepoUrl} : edit_git_entry(text)
    \/ \E path \in StorePaths : on_folder_chosen(path)
    \/ save_settings
    \/ \E id \in DOMAIN calls : \E ok \in BOOLEAN : child_exit(id, ok)
    \/ \E id \in DOMAIN calls : after_communicate(id)
    \/ cancel
    \/ idle_dispatch

Spec == Init /\ [][Next]_vars

\* the executor specification: the user reveals entries, navigates folders
\* and clones into the configured store; the settings are left alone
NextExec ==
    \/ \E upto \in 0..Len(folder_path) : nav_to(upto)
    \/ Len(calls) < MaxCalls /\ \E pos \in DOMAIN folder_store : on_folder_activate_file(pos)
    \/ \E pos \in DOMAIN folder_store : on_folder_activate_dir(pos)
    \/ Len(calls) < MaxCalls /\ \E pos \in DOMAIN all_liststore : on_all_activate(pos)
    \/ Len(calls) < MaxCalls /\ clone_repo
    \/ \E text \in {<< >>, RepoUrl} : edit_git_entry(text)
    \/ \E id \in DOMAIN calls : \E ok \in BOOLEAN : child_exit(id, ok)
    \/ \E id \in DOMAIN calls : after_communicate(id)
    \/ cancel
    \/ idle_dispatch

SpecExec == InitExec /\ [][NextExec]_vars

\* the delivery specification: the user reveals entries from the flat list,
\* types the repository URL and clones into the configured store
NextRun ==
    \/ Len(calls) < MaxCalls /\ \E pos \in DOMAIN all_liststore : on_all_activate(pos)
    \/ Len(calls) < MaxCalls /\ clone_repo
    \/ edit_git_entry(RepoUrl)
    \/ \E id \in DOMAIN calls : \E ok \in BOOLEAN : child_exit(id, ok)
    \/ \E id \in DOMAIN calls : after_communicate(id)
    \/ cancel
    \/ idle_dispatch

\* the main loop runs every completed operation's callback and every idle
\* source; nothing obliges a child process to exit
FairSpecExec ==
    /\ InitExec /\ [][NextRun]_vars
    /\ \A id \in 1..MaxCalls : WF_vars(after_communicate(id))
    /\ WF_vars(idle_dispatch)

\* the views specification: the user searches, navigates folders, edits and
\* saves the settings, chooses a store folder and clones; no entry is revealed
NextViews ==
    \/ \E text \in MainQueries : on_search_changed(text)
    \/ \E upto \in 0..Len(folder_path) : nav_to(upto)
    \/ \E pos \in DOMAIN folder_store : on_folder_activate_dir(pos)
    \/ Len(calls) < MaxClones /\ clone_repo
    \/ \E text \in StoreTexts : edit_store_entry(text)
    \/ \E text \in {<< >>, RepoUrl} : edit_git_entry(text)
    \/ \E path \in StorePaths : on_folder_chosen(path)
    \/ save_settings
    \/ \E id \in DOMAIN calls : \E ok \in BOOLEAN : child_exit(id, ok)
    \/ \E id \in DOMAIN calls : after_communicate(id)
    \/ cancel
    \/ idle_dispatch

SpecViews == Init /\ [][NextViews]_vars

\* the index specification: the store holds any set of at most MaxFiles files
\* and the user searches, navigates and refreshes
NextIndex ==
    \/ \E text \in Queries : on_search_changed(text)
    \/ \E upto \in 0..Len(folder_path) : nav_to(upto)
    \/ \E pos \in DOMAIN folder_store : on_folder_activate_dir(pos)
    \/ save_settings

SpecIndex == InitIndex /\ [][NextIndex]_vars

\* the builder specification: the window starts on any configuration a config
\* file can hold; the user selects a backend, edits the custom command, saves
\* and reveals entries
NextBuild ==
    \/ \E b \in Backends : select_backend(b)
    \/ \E text \in CustomTexts : edit_custom_entry(text)
    \/ save_settings
    \/ Len(calls) < MaxBuilds /\ \E pos \in DOMAIN all_liststore : on_all_activate(pos)
    \/ \E id \in DOMAIN calls : \E ok \in BOOLEAN : child_exit(id, ok)
    \/ \E id \in DOMAIN calls : after_communicate(id)
    \/ idle_dispatch

SpecBuild == InitBuild /\ [][NextBuild]_vars

\* the reveal specification: the user navigates folders and reveals entries
\* from both pages while earlier reveals are still in flight
NextReveal ==
    \/ \E upto \in 0..Len(folder_path) : nav_to(upto)
    \/ \E pos \in DOMAIN folder_store : on_folder_activate_dir(pos)
    \/ Len(calls) < MaxReveals /\ \E pos \in DOMAIN folder_store : on_folder_activate_file(pos)
    \/ Len(calls) < MaxReveals /\ \E pos \in DOMAIN all_liststore : on_all_activate(pos)
    \/ \E id \in DOMAIN calls : \E ok \in BOOLEAN : child_exit(id, ok)
    \/ \E id \in DOMAIN calls : after_communicate(id)
    \/ idle_dispatch

SpecReveal == Init /\ [][NextReveal]_vars

(***************************************************************************)
(* Properties of the executor.                                             *)
(***************************************************************************)
\* how often on_done of call id has run
Delivered(id) == IF id \in DOMAIN calls THEN calls[id].ndone ELSE 0

\* call id has ended: its child exited, could not be launched, or the
\* cancellable was cancelled
Ended(id) ==
    /\ id \in DOMAIN calls
    /\ calls[id].child \in {"none", "exited"} \/ cancelled

C3_CancelTerminatesChild ==
    \A id \in DOMAIN calls :
        /\ calls[id].ndone <= 1
        /\ (cancelled /\ calls[id].comm = "done" /\ calls[id].ndone = 1) =>
               /\ calls[id].result[1] # 0
               /\ calls[id].child # "running"

\* C4: on_done never runs inside the run_command_async call: the step that
\* makes a call runs no on_done, and on_done of a call, with every change it
\* makes to a detail pane or to the Index, happens in a later main loop step
\* that dispatches the idle source at the head of the queue
C4_OnDoneAfterReturn ==
    [][ /\ \A id \in 1..MaxCalls :
              Delivered(id)' # Delivered(id) =>
                  /\ id \in DOMAIN calls
                  /\ Len(calls') = Len(calls)
                  /\ idle # << >> /\ Head(idle).call = id
                  /\ idle' = Tail(idle)
        /\ (detail' # detail \/ entries' # entries) =>
              /\ Len(calls') = Len(calls)
              /\ idle # << >> /\ idle' = Tail(idle)
      ]_vars

\* a reveal has completed and its on_done has filled the detail pane
C4_Witness ==
    \E id \in DOMAIN calls :
        /\ calls[id].kind = "show" /\ calls[id].ndone = 1
        /\ calls[id].result[1] = 0
        /\ detail[calls[id].viewer].title = calls[id].arg
        /\ detail[calls[id].viewer].body = Secret(calls[id].arg)

(***************************************************************************)
(* Properties of the Index and its derived views.                          *)
(***************************************************************************)
NamesOf(entries_) == {entries_[i].name : i \in DOMAIN entries_}

\* the segments of a canonical name: name.split("/")
RECURSIVE Segments(_)
Segments(name) ==
    IF ~Contains(Slash, name) THEN << name >>
    ELSE << SplitFirst(name) >> \o Segments(DropFirst(name, Len(SplitFirst(name)) + 1))

\* the strings of a list are in ascending order
Ascending(list) ==
    \A i \in 1..(Len(list) - 1) : ~StrLess(list[i + 1], list[i])

\* items is the folder listing of the Index entries_ at path prefix: the
\* deduplicated first segments of the remainders with a further "/" as
\* directories, ascending, followed by the remainders without "/" as files,
\* ascending
IsFolderListing(items, entries_, prefix) ==
    LET under == {i \in DOMAIN entries_ :
                     LET segs == Segments(entries_[i].name)
                     IN  /\ Len(segs) > Len(prefix)
                         /\ SubSeq(segs, 1, Len(prefix)) = prefix}
        rem(i) == DropFirst(Segments(entries_[i].name), Len(prefix))
        dirs == {rem(i)[1] : i \in {j \in under : Len(rem(j)) > 1}}
        fileOf == {i \in under : Len(rem(i)) = 1}
        k == Cardinality(dirs)
    IN  /\ Len(items) = k + Cardinality(fileOf)
        /\ \A j \in DOMAIN items : items[j].is_dir <=> j <= k
        /\ {items[j].name : j \in 1..k} = dirs
        /\ {items[j].name : j \in (k + 1)..Len(items)} = {rem(i)[1] : i \in fileOf}
        /\ Ascending([j \in 1..k |-> items[j].name])
        /\ Ascending([j \in 1..(Len(items) - k) |-> items[k + j].name])

\* C5: the displayed flat list is the search filter applied to the current
\* Index with the text currently in the search field
C5_FlatListIsProjection ==
    /\ filtered_entries = FilterEntries(entries, search_entry)
    /\ all_liststore = ReloadAllModel(filtered_entries)

\* C6: the displayed folder items are the folder listing of the current Index
\* at the current folder path
C6_FolderViewIsProjection == IsFolderListing(folder_store, entries, folder_path)

\* a clone has completed with code 0 and the user has entered a folder of
\* the rebuilt Index
C6_Witness ==
    /\ \E id \in DOMAIN calls :
           /\ calls[id].kind = "clone" /\ calls[id].ndone = 1
           /\ calls[id].result[1] = 0
    /\ folder_path # << >>
    /\ folder_store # << >>

\* C7: when on_done of a clone runs with code 0 the Index becomes exactly the
\* entries of the store the clone wrote into; with a non-zero code the Index
\* and both derived views stay as they are
C7_CloneRebuildsIndex ==
    [][ \A id \in DOMAIN calls :
            (calls[id].kind = "clone" /\ calls'[id].ndone = calls[id].ndone + 1) =>
                IF calls'[id].result[1] = 0
                THEN {entries'[i] : i \in DOMAIN entries'} =
                         {EntryOf(calls[id].arg, p) : p \in RGlob(fs[calls[id].arg].files)}
                ELSE UNCHANGED indexVars
      ]_vars

\* path prefixes at which the listing is compared, beside the current one
PathPrefixes ==
    { << >>, << << "e", "m", "a", "i", "l" >> >>, << << "e", "m", "a", "i", "l" >>, << "w" >> >>, << << "x" >> >>,
      << << "e" >> >>, << << "b", "a", "n", "k" >> >>, << << "e", "m", "a", "i", "l" >>, << "g", "m", "a", "i", "l" >> >> }

\* C8: at every path prefix the folder listing holds the deduplicated first
\* segments of the remainders with a further "/" as directories and the
\* remainders without "/" as files, directories ascending before files
\* ascending; for the store {email/gmail.gpg, email/work.gpg, bank.gpg} the
\* flat projection is [bank, email/gmail, email/work], the root lists
\* [email] and [bank], and [email] lists [] and [gmail, work]
C8_FolderListing ==
    /\ \A prefix \in PathPrefixes \cup {folder_path} :
           IsFolderListing(load_folder_items(entries, prefix), entries, prefix)
    /\ IsFolderListing(folder_store, entries, folder_path)
    /\ fs[cfg.store_path].files = ScenarioFiles =>
           /\ [i \in DOMAIN entries |-> entries[i].name] =
                  << << "b", "a", "n", "k" >>, << "e", "m", "a", "i", "l", "/", "g", "m", "a", "i", "l" >>, << "e", "m", "a", "i", "l", "/", "w", "o", "r", "k" >> >>
           /\ load_folder_items(entries, << >>) =
                  << [name |-> << "e", "m", "a", "i", "l" >>, is_dir |-> TRUE],
                     [name |-> << "b", "a", "n", "k" >>, is_dir |-> FALSE] >>
           /\ load_folder_items(entries, << << "e", "m", "a", "i", "l" >> >>) =
                  << [name |-> << "g", "m", "a", "i", "l" >>, is_dir |-> FALSE],
                     [name |-> << "w", "o", "r", "k" >>, is_dir |-> FALSE] >>

\* the scenario's store with the folder [email] opened
C8_Witness ==
    /\ fs[cfg.store_path].files = ScenarioFiles
    /\ folder_path = << << "e", "m", "a", "i", "l" >> >>
    /\ folder_store = << [name |-> << "g", "m", "a", "i", "l" >>, is_dir |-> FALSE],
                         [name |-> << "w", "o", "r", "k" >>, is_dir |-> FALSE] >>

\* name contains q as a substring when case is ignored
ContainsCI(q, name) ==
    \E off \in 0..(Len(name) - Len(q)) :
        \A j \in DOMAIN q : LowerChar(name[off + j]) = LowerChar(q[j])

WhitespaceOnly(text) == \A i \in DOMAIN text : text[i] = " "

\* the Index is sorted ascending by canonicalName, case ignored
SortedCI(entries_) ==
    \A i \in 1..(Len(entries_) - 1) :
        ~StrLess(Lower(entries_[i + 1].name), Lower(entries_[i].name))

\* the filter with the query matched exactly as typed
LiteralFilter(entries_, text) ==
    IF WhitespaceOnly(text) THEN entries_
    ELSE SelectSeq(entries_, LAMBDA e : ContainsCI(text, e.name))

\* the filter with the query stripped of leading and trailing whitespace
StrippedFilter(entries_, text) ==
    IF WhitespaceOnly(text) THEN entries_
    ELSE SelectSeq(entries_, LAMBDA e : ContainsCI(Strip(text), e.name))

\* C9 as written: a search with an empty or whitespace-only query shows the
\* whole Index, sorted with case ignored; any other query shows, in the same
\* order, exactly the entries whose name contains the query, case ignored
C9_FilterAsWritten ==
    [][ search_entry' # search_entry =>
            /\ SortedCI(entries)
            /\ filtered_entries' = LiteralFilter(entries, search_entry') ]_vars

\* C9 amended: the query is matched after its leading and trailing whitespace
\* is removed
C9_FilterStripped ==
    [][ search_entry' # search_entry =>
            /\ SortedCI(entries)
            /\ filtered_entries' = StrippedFilter(entries, search_entry') ]_vars

\* a query with leading whitespace and upper case has selected some entries
\* of the Index and left others out
C9_Witness ==
    /\ search_entry = << " ", "M", "a", "i", "l" >>
    /\ filtered_entries # << >>
    /\ Len(filtered_entries) < Len(entries)

\* the names produced by expanding the folder listing from path downwards
RECURSIVE Expand(_, _)
Expand(entries_, path) ==
    LET items == load_folder_items(entries_, path)
    IN  {full_name(path, items[i].name) : i \in {j \in DOMAIN items : ~items[j].is_dir}}
        \cup UNION {Expand(entries_, Append(path, items[i].name)) :
                        i \in {j \in DOMAIN items : items[j].is_dir}}

\* C10: expanding the folder listing recursively from the empty path prefix
\* yields exactly the canonical names of the Index
C10_RoundTrip == Expand(entries, << >>) = NamesOf(entries)

\* an Index of three entries, one of them two folders deep, with the user in
\* the inner folder
C10_Witness ==
    /\ Cardinality(NamesOf(entries)) = 3
    /\ \E name \in NamesOf(entries) : Len(Segments(name)) = 3
    /\ Len(folder_path) = 2


\* a name as the Entry record requires it: no ".gpg", no backslash, no "/" at
\* either end
WellFormedName(name) ==
    /\ ~Contains(GpgSuffix, name)
    /\ ~Contains(<< "\\" >>, name)
    /\ ~StartsWith(name, Slash)
    /\ ~EndsWith(name, Slash)

\* C11: every Entry of the Index has a name that contains no ".gpg" and no
\* backslash and neither starts nor ends with "/"
C11_CanonicalNames == \A i \in DOMAIN entries : WellFormedName(entries[i].name)

\* name without the "/" characters at its ends
RECURSIVE TrimSlashes(_)
TrimSlashes(name) ==
    IF name # << >> /\ Head(name) = "/" THEN TrimSlashes(Tail(name))
    ELSE IF name # << >> /\ name[Len(name)] = "/"
    THEN TrimSlashes(DropLast(name, 1))
    ELSE name

\* the canonical name the file of Entry e maps to: its store-relative path
\* without the suffix and without "/" at either end
CanonicalNameOf(e) == TrimSlashes(e.name)

\* C12: _refresh_lists installs every Index without a diagnostic, so no
\* installed Index may hold two Entries whose files map to the same canonical
\* name (as x.gpg and x/.gpg do), and no two Entries of the same name
C12_NoSilentCollision ==
    \A i, j \in DOMAIN entries :
        i # j =>
            /\ CanonicalNameOf(entries[i]) # CanonicalNameOf(entries[j])
            /\ entries[i].name # entries[j].name


(***************************************************************************)
(* Properties of the command builder.                                      *)
(***************************************************************************)
S_a == << "a" >>

\* logical argument lists handed to build
ArgLists ==
    { << >>, << S_show, S_a >>, << S_a, S_show >>,
      << S_show, << "e", "m", "a", "i", "l", "/", "g", "m", "a", "i", "l" >> >> }

\* the shell-style tokens of the well-formed custom commands
ShellTokens(s) ==
    CASE s = S_pass -> << S_pass >>
      [] s = C_xy_pass -> << << "/", "x", "/", "y" >>, S_pass >>
      [] s = C_quoted -> << << "x", " ", "y" >> >>
      [] OTHER -> << >>

\* C13: build returns the strategy's prefix followed by the logical args,
\* unchanged and in order: with backend host the program "pass" and exactly
\* args, with backend custom the shell-style tokens of custom_cmd and then
\* args, so that custom_cmd "/x/y pass" and args [show, a] give the program
\* /x/y with [pass, show, a]; every reveal's argv ends with [show, name]
C13_BuildPrefix ==
    /\ \A args \in ArgLists :
           LET b == build(cfg, args)
           IN  /\ cfg.backend = "host" =>
                      b.ok /\ Head(b.argv) = S_pass /\ Tail(b.argv) = args
               /\ (cfg.backend = "custom" /\ cfg.custom_cmd # C_unclosed) =>
                      b.ok /\ b.argv = ShellTokens(cfg.custom_cmd) \o args
               /\ b.ok => b.argv = build(cfg, << >>).argv \o args
    /\ (cfg.backend = "custom" /\ cfg.custom_cmd = C_xy_pass) =>
           build(cfg, << S_show, S_a >>).argv =
               << << "/", "x", "/", "y" >>, S_pass, S_show, S_a >>
    /\ \A id \in DOMAIN calls :
           calls[id].kind = "show" =>
               /\ Len(calls[id].argv) >= 2
               /\ DropFirst(calls[id].argv, Len(calls[id].argv) - 2) =
                      << S_show, calls[id].arg >>

\* the custom command " /x/y pass" was typed and saved with the backend
\* custom, and the entry a was revealed with it
C13_Witness ==
    /\ custom_entry = << " ", "/", "x", "/", "y", " ", "p", "a", "s", "s" >>
    /\ cfg.backend = "custom" /\ cfg.custom_cmd = C_xy_pass
    /\ \E id \in DOMAIN calls :
           calls[id].argv = << << "/", "x", "/", "y" >>, S_pass, S_show, S_a >>

\* C14: with backend custom and a custom_cmd of zero tokens build fails and
\* returns no invocation; no reveal ever runs an invocation whose program is
\* the first logical argument, "show"
C14_EmptyCustomCmdRejected ==
    /\ (/\ cfg.backend = "custom"
        /\ ShlexSplit(cfg.custom_cmd).ok
        /\ ShlexSplit(cfg.custom_cmd).tokens = << >>) =>
           \A args \in ArgLists : ~build(cfg, args).ok
    /\ \A id \in DOMAIN calls :
           calls[id].kind = "show" => Head(calls[id].argv) # S_show


(***************************************************************************)
(* Properties of the detail panes.                                         *)
(***************************************************************************)
\* the reveals requested for viewer v, by call number
RevealsOf(v) ==
    {id \in DOMAIN calls : calls[id].kind = "show" /\ calls[id].viewer = v}

\* the reveal of viewer v that was requested last
LastReveal(v) == CHOOSE id \in RevealsOf(v) : \A other \in RevealsOf(v) : other <= id

\* C15: once two or more reveals of one viewer have all completed with
\* success, the viewer's title and body are those of the reveal requested
\* last, in whatever order the children finished; and in every state the
\* viewer's title and body come from one and the same reveal
C15_LastRequestWins ==
    \A v \in {1, 2} :
        /\ (/\ Cardinality(RevealsOf(v)) >= 2
            /\ \A id \in RevealsOf(v) :
                   calls[id].ndone = 1 /\ calls[id].result[1] = 0) =>
               /\ detail[v].title = calls[LastReveal(v)].arg
               /\ detail[v].body = calls[LastReveal(v)].result[2]
        /\ \/ detail[v] = [title |-> << >>, body |-> << >>]
           \/ \E id \in RevealsOf(v) :
                  /\ calls[id].ndone = 1
                  /\ detail[v].title = calls[id].arg
                  /\ detail[v].body = calls[id].result[2]

====
